---- MODULE Spec2Model ----
(***************************************************************************)
(* TokenForge control plane: the service Registry (controlplane/registry), *)
(* the Kubernetes adapter (controlplane/k8s), the deployment Controller    *)
(* (controlplane/controller.go) and the HTTP deploy handler                *)
(* (api/handlers/deploy.go).                                               *)
(*                                                                         *)
(* Strings are sequences of characters, so that makeKey and the resource   *)
(* names are computed the way fmt.Sprintf computes them.                   *)
(***************************************************************************)
EXTENDS Integers, Sequences, FiniteSets, TLC

\* ------------------------------------------------------------------ bounds
\* number of goroutines (callers / HTTP requests) running concurrently
NumProcs == 2

Procs == 1..NumProcs

\* ------------------------------------------------------------------ inputs
\* model and runtime identifiers the callers pass
M1 == <<"m", "1">>
M2 == <<"o", "/", "N", ".", "8">>
Vllm == <<"v", "l", "l", "m">>
URLa == <<"http://a">>
URLb == <<"http://b">>

RegModels == {M1, M2}
RegRuntimes == {Vllm}
RegURLs == {URLa, URLb}

\* ================================================================ Registry
\* makeKey: fmt.Sprintf("%s::%s", model, runtime)
makeKey(model, runtime) == model \o <<":", ":">> \o runtime

\* r.store[makeKey(model, runtime)] = serviceURL
SetDropsWrite(s, model, runtime, serviceURL) == s

Set(s, model, runtime, serviceURL) ==
    [k \in (DOMAIN s) \cup {makeKey(model, runtime)} |->
        IF k = makeKey(model, runtime) THEN serviceURL ELSE s[k]]

\* url, found := r.store[makeKey(model, runtime)]   (url is "" when absent)
Get(s, model, runtime) ==
    IF makeKey(model, runtime) \in DOMAIN s
    THEN <<s[makeKey(model, runtime)], TRUE>>
    ELSE <<<<>>, FALSE>>

\* delete(r.store, makeKey(model, runtime))
Delete(s, model, runtime) ==
    [k \in (DOMAIN s) \ {makeKey(model, runtime)} |-> s[k]]

\* result := make(map); for k, v := range r.store { result[k] = v }
List(s) == [k \in DOMAIN s |-> s[k]]

\* whether the map List hands out is the Registry's own map object: List
\* fills a map it made itself
ListReturnsStore(s) == TRUE

ListShares(s) == FALSE

\* NewRegistry: store: make(map[string]string)
NewRegistry == [k \in {} |-> <<>>]

NoResult == [kind |-> "none"]

VARIABLES
    store,      \* Registry.store
    mu,         \* Registry.mu: [writer |-> 0 or the holder, readers |-> set]
    pc,         \* position of each goroutine
    call,       \* the call each goroutine is running: arguments and result
    lastSet,    \* history: for each key, the value of the last Set not
                \* followed by a Delete (absent otherwise)
    deployments,    \* cluster: the Deployment objects of namespace "default"
    services,       \* cluster: the Service objects of namespace "default"
    readyReplicas,  \* cluster: Status.ReadyReplicas of each Deployment name
    dbClient        \* db.Client: nextRunID, and (history) the largest run
                    \* number found in the database at start-up

vars == <<store, mu, pc, call, lastSet, deployments, services, readyReplicas,
          dbClient>>
regVars == <<mu, lastSet>>
clusterVars == <<deployments, services, readyReplicas>>

IdleCall == [op |-> "none", result |-> NoResult]

\* db.NewClient, lines 55-65: nextRunID is the largest run number of the
\* runs table plus one
NewClient(maxID) == [nextRunID |-> maxID + 1, maxID |-> maxID]

RegInit ==
    /\ store = NewRegistry
    /\ mu = [writer |-> 0, readers |-> {}]
    /\ pc = [p \in Procs |-> "idle"]
    /\ call = [p \in Procs |-> IdleCall]
    /\ lastSet = [k \in {} |-> <<>>]
    /\ deployments = {}
    /\ services = {}
    /\ readyReplicas = [n \in {} |-> 0]
    /\ dbClient = NewClient(0)

\* a caller enters Set / Delete (about to r.mu.Lock())
RegCallSet(p) ==
    /\ pc[p] = "idle"
    /\ \E model \in RegModels, runtime \in RegRuntimes, url \in RegURLs :
         call' = [call EXCEPT ![p] = [op |-> "Set", model |-> model,
                    runtime |-> runtime, url |-> url, result |-> NoResult]]
    /\ pc' = [pc EXCEPT ![p] = "Lock"]
    /\ UNCHANGED <<store, mu, lastSet, clusterVars>>
    /\ UNCHANGED dbClient

RegCallDelete(p) ==
    /\ pc[p] = "idle"
    /\ \E model \in RegModels, runtime \in RegRuntimes :
         call' = [call EXCEPT ![p] = [op |-> "Delete", model |-> model,
                    runtime |-> runtime, result |-> NoResult]]
    /\ pc' = [pc EXCEPT ![p] = "Lock"]
    /\ UNCHANGED <<store, mu, lastSet, clusterVars>>
    /\ UNCHANGED dbClient

\* a caller enters Get / List (about to r.mu.RLock())
RegCallGet(p) ==
    /\ pc[p] = "idle"
    /\ \E model \in RegModels, runtime \in RegRuntimes :
         call' = [call EXCEPT ![p] = [op |-> "Get", model |-> model,
                    runtime |-> runtime, result |-> NoResult]]
    /\ pc' = [pc EXCEPT ![p] = "RLock"]
    /\ UNCHANGED <<store, mu, lastSet, clusterVars>>
    /\ UNCHANGED dbClient

RegCallList(p) ==
    /\ pc[p] = "idle"
    /\ call' = [call EXCEPT ![p] = [op |-> "List", result |-> NoResult]]
    /\ pc' = [pc EXCEPT ![p] = "RLock"]
    /\ UNCHANGED <<store, mu, lastSet, clusterVars>>
    /\ UNCHANGED dbClient

\* sync.RWMutex.Lock: exclusive
MuLock(p) ==
    /\ pc[p] = "Lock"
    /\ mu.writer = 0 /\ mu.readers = {}
    /\ mu' = [mu EXCEPT !.writer = p]
    /\ pc' = [pc EXCEPT ![p] = "locked"]
    /\ UNCHANGED <<store, call, lastSet, clusterVars>>
    /\ UNCHANGED dbClient

\* sync.RWMutex.RLock: shared among readers
MuRLock(p) ==
    /\ pc[p] = "RLock"
    /\ mu.writer = 0
    /\ mu' = [mu EXCEPT !.readers = @ \cup {p}]
    /\ pc' = [pc EXCEPT ![p] = "rlocked"]
    /\ UNCHANGED <<store, call, lastSet, clusterVars>>
    /\ UNCHANGED dbClient

\* a collection a caller holds, as it reads once the Registry's map is s:
\* a map object shared with the Registry shows the Registry's writes
HeldView(c, s) ==
    IF c.result.kind = "list" /\ c.result.shares
    THEN [c EXCEPT !.result.entries = s]
    ELSE c

\* body of Registry.Set, then the deferred Unlock
RegSet(p) ==
    /\ pc[p] = "locked" /\ call[p].op = "Set"
    /\ store' = Set(store, call[p].model, call[p].runtime, call[p].url)
    /\ lastSet' = [k \in (DOMAIN lastSet) \cup {makeKey(call[p].model, call[p].runtime)} |->
                     IF k = makeKey(call[p].model, call[p].runtime)
                     THEN call[p].url ELSE lastSet[k]]
    /\ mu' = [mu EXCEPT !.writer = 0]
    /\ call' = [q \in Procs |->
                  IF q = p THEN [call[p] EXCEPT !.result = [kind |-> "set"]]
                  ELSE HeldView(call[q], store')]
    /\ pc' = [pc EXCEPT ![p] = "idle"]
    /\ UNCHANGED clusterVars
    /\ UNCHANGED dbClient

\* body of Registry.Delete, then the deferred Unlock
RegDelete(p) ==
    /\ pc[p] = "locked" /\ call[p].op = "Delete"
    /\ store' = Delete(store, call[p].model, call[p].runtime)
    /\ lastSet' = [k \in (DOMAIN lastSet) \ {makeKey(call[p].model, call[p].runtime)} |->
                     lastSet[k]]
    /\ mu' = [mu EXCEPT !.writer = 0]
    /\ call' = [q \in Procs |->
                  IF q = p THEN [call[p] EXCEPT !.result = [kind |-> "deleted"]]
                  ELSE HeldView(call[q], store')]
    /\ pc' = [pc EXCEPT ![p] = "idle"]
    /\ UNCHANGED clusterVars
    /\ UNCHANGED dbClient

\* body of Registry.Get, then the deferred RUnlock; "expect" records what
\* the history says at this moment
RegGet(p) ==
    /\ pc[p] = "rlocked" /\ call[p].op = "Get"
    /\ call' = [call EXCEPT ![p].result =
                  [kind |-> "get",
                   url |-> Get(store, call[p].model, call[p].runtime)[1],
                   found |-> Get(store, call[p].model, call[p].runtime)[2],
                   expect |-> lastSet]]
    /\ mu' = [mu EXCEPT !.readers = @ \ {p}]
    /\ pc' = [pc EXCEPT ![p] = "idle"]
    /\ UNCHANGED <<store, lastSet, clusterVars>>
    /\ UNCHANGED dbClient

\* body of Registry.List, then the deferred RUnlock
RegList(p) ==
    /\ pc[p] = "rlocked" /\ call[p].op = "List"
    /\ call' = [call EXCEPT ![p].result =
                  [kind |-> "list", entries |-> List(store), expect |-> lastSet,
                   shares |-> ListShares(store), mutated |-> FALSE]]
    /\ mu' = [mu EXCEPT !.readers = @ \ {p}]
    /\ pc' = [pc EXCEPT ![p] = "idle"]
    /\ UNCHANGED <<store, lastSet, clusterVars>>
    /\ UNCHANGED dbClient

RegNext ==
    \E p \in Procs :
        \/ RegCallSet(p)
        \/ RegCallDelete(p)
        \/ RegCallGet(p)
        \/ RegCallList(p)
        \/ MuLock(p)
        \/ MuRLock(p)
        \/ RegSet(p)
        \/ RegDelete(p)
        \/ RegGet(p)
        \/ RegList(p)

RegSpec == RegInit /\ [][RegNext]_vars

\* the caller of List changes the collection it was handed: it puts a value
\* under a key or deletes a key
MutateListed(p) ==
    /\ pc[p] = "idle"
    /\ call[p].result.kind = "list"
    /\ ~call[p].result.mutated
    /\ \E model \in {M1}, runtime \in RegRuntimes :
         \E changed \in {Set(call[p].result.entries, model, runtime, URLb),
                          Delete(call[p].result.entries, model, runtime)} :
            /\ changed # call[p].result.entries
            /\ store' = IF call[p].result.shares THEN changed ELSE store
            /\ call' = [q \in Procs |->
                          IF q = p
                          THEN [call[p] EXCEPT !.result.entries = changed,
                                               !.result.mutated = TRUE]
                          ELSE HeldView(call[q], store')]
    /\ UNCHANGED <<pc, mu, lastSet, clusterVars>>
    /\ UNCHANGED dbClient

ListNext == RegNext \/ \E p \in Procs : MutateListed(p)

ListSpec == RegInit /\ [][ListNext]_vars

\* C1: every Get returns found=true with the value of the most recent Set on
\* its key when no Delete on that key came after it, and found=false (with
\* the empty string) otherwise, whatever Set/Delete calls on other keys ran
\* concurrently; List returns exactly the entries written and not deleted.
C1_GetReturnsLastSet ==
    \A p \in Procs :
        /\ call[p].result.kind = "get" =>
             LET key == makeKey(call[p].model, call[p].runtime)
                 r == call[p].result
             IN  IF key \in DOMAIN r.expect
                 THEN r.found /\ r.url = r.expect[key]
                 ELSE ~r.found /\ r.url = <<>>
        /\ call[p].result.kind = "list" =>
             call[p].result.entries = call[p].result.expect

\* a Get that found the value another goroutine wrote, after a Delete and a
\* Set on the other key, while the other key is absent
C1_Witness ==
    \E p \in Procs, q \in Procs :
        /\ p # q
        /\ call[p].result.kind = "get" /\ call[p].result.found
        /\ call[p].result.url = URLb
        /\ call[q].result.kind = "deleted"
        /\ call[q].model # call[p].model
        /\ makeKey(call[q].model, call[q].runtime) \notin DOMAIN store

\* ========================================================= cluster adapter
\* configs/models.yaml and configs/runtimes.yaml, as deployed
ConfigModels == {M1, M2}
ConfigRuntimes == {Vllm}

\* what deploy callers pass: the empty model, configured ones, an unknown one
MX == <<"x">>
ReqModels == {<<>>, M1, M2, MX}
ReqRuntimes == {Vllm}
RX == <<"r", "x">>
\* the (model, runtime) pairs of the deploy requests: every model with the
\* configured runtime, and one pair whose runtime has no descriptor
ReqPairs == (ReqModels \X ReqRuntimes) \cup {<<M1, RX>>}
Quants == {<<"fp16">>, <<"int8">>}

\* strings.ToLower on the letters the identifiers use
ToLower(c) ==
    CASE c = "N" -> "n"
      [] c = "M" -> "m"
      [] c = "O" -> "o"
      [] c = "B" -> "b"
      [] c = "L" -> "l"
      [] OTHER -> c

\* slugify: '/' and '.' become '-', then lowercase
slugifyKeepsDots(name) ==
    [i \in DOMAIN name |-> IF name[i] = "/" THEN "-" ELSE ToLower(name[i])]

slugify(name) ==
    [i \in DOMAIN name |->
        IF name[i] = "/" \/ name[i] = "." THEN "-" ELSE ToLower(name[i])]

\* DeployWorker, "Set namespace", "Generate names", "Construct service URL":
\* what a successful DeployWorker returns
DeployWorkerNamesWithQuant(model, runtime, quant) ==
    LET name == <<"worker-">> \o runtime \o <<"-">> \o slugify(model) \o <<"-">> \o quant
    IN  [namespace |-> <<"default">>,
         deploymentName |-> name,
         serviceName |-> name,
         serviceURL |-> <<"http://">> \o name \o <<".">> \o <<"default">>
                          \o <<".svc.cluster.local:8000">>]

DeployWorkerNames(model, runtime, quant) ==
    LET namespace == <<"default">>
        modelSlug == slugify(model)
        deploymentName == <<"worker-">> \o runtime \o <<"-">> \o modelSlug
        serviceName == deploymentName
    IN  [namespace |-> namespace,
         deploymentName |-> deploymentName,
         serviceName |-> serviceName,
         serviceURL |-> <<"http://">> \o serviceName \o <<".">> \o namespace
                          \o <<".svc.cluster.local:8000">>]

\* buildDeploymentManifest: replicas := int32(1)
Replicas == 1

\* buildDeploymentManifest, "Create labels": the labels of the Deployment,
\* of its selector and of its pod template
DeploymentLabels(model, runtime) ==
    [app |-> <<"worker">>, runtime |-> runtime, model |-> slugify(model)]

\* buildServiceManifest: Spec.Selector of the Service
ServiceSelector(deploymentName) ==
    [app |-> <<"worker">>, name |-> deploymentName]

\* IsDeploymentReady: deployment.Status.ReadyReplicas == *deployment.Spec.Replicas
IsDeploymentReadyAtMost(ready) == ready <= Replicas

IsDeploymentReady(ready) == ready = Replicas

DeploymentNames == {d.name : d \in deployments}
ServiceNames == {s.name : s \in services}

\* ======================================================= deploy operations
NoErr == "nil"

\* a deploy call in flight; the fields after "result" are history of the call
NewCall(op, model, runtime, quant) ==
    [op |-> op, model |-> model, runtime |-> runtime, quant |-> quant,
     result |-> NoResult,
     \* the Registry entry of the pair when the call began
     hadEntry |-> makeKey(model, runtime) \in DOMAIN store,
     entry |-> IF makeKey(model, runtime) \in DOMAIN store
               THEN store[makeKey(model, runtime)] ELSE <<>>,
     fast |-> FALSE,        \* returned from the existing-entry path
     creates |-> {},        \* cluster create calls issued
     dwErr |-> NoErr,       \* the error DeployWorker returned
     provisioned |-> FALSE, \* DeployWorker returned without error
     wrote |-> FALSE,       \* the call changed the Registry
     polled |-> FALSE,      \* a readiness check was made
     sawReady |-> FALSE,    \* a readiness check observed ready = desired
     wait |-> "none"]       \* how waitForReady ended

\* Controller.DeployModel, lines 24-30: the existing-entry check
DeployModelAlwaysDeploys(s, model, runtime) == <<<<>>, FALSE>>

DeployModelLookup(s, model, runtime) == Get(s, model, runtime)

StartDeployModel(p) ==
    /\ pc[p] = "idle" /\ call[p].op = "none"
    /\ \E pair \in ReqPairs, quant \in Quants :
         LET model == pair[1]
             runtime == pair[2]
             c == NewCall("DeployModel", model, runtime, quant)
             g == DeployModelLookup(store, model, runtime)
         IN  IF g[2]
             THEN /\ call' = [call EXCEPT ![p] =
                        [c EXCEPT !.fast = TRUE,
                                  !.result = [kind |-> "ok", endpoint |-> g[1]]]]
                  /\ pc' = [pc EXCEPT ![p] = "done"]
             ELSE /\ call' = [call EXCEPT ![p] = c]
                  /\ pc' = [pc EXCEPT ![p] = "DeployWorker"]
    /\ UNCHANGED <<store, regVars, clusterVars>>
    /\ UNCHANGED dbClient

\* DeployHandler, lines 32-42: decode and validate the request
StartDeployHandler(p) ==
    /\ pc[p] = "idle" /\ call[p].op = "none"
    /\ \E pair \in ReqPairs, quant \in Quants :
         LET model == pair[1]
             runtime == pair[2]
             c == NewCall("DeployHandler", model, runtime, quant)
         IN  IF model = <<>> \/ runtime = <<>>
             THEN /\ call' = [call EXCEPT ![p] =
                        [c EXCEPT !.result = [kind |-> "http", status |-> 400]]]
                  /\ pc' = [pc EXCEPT ![p] = "done"]
             ELSE /\ call' = [call EXCEPT ![p] = c]
                  /\ pc' = [pc EXCEPT ![p] = "DeployWorker"]
    /\ UNCHANGED <<store, regVars, clusterVars>>
    /\ UNCHANGED dbClient

\* the Registry after DeployWorker returned (serviceURL, err) to its caller:
\* both callers return on err # nil and call registry.Set otherwise
RegisterBeforeErrCheck(s, model, runtime, serviceURL, err) ==
    Set(s, model, runtime, serviceURL)

RegisterAfterDeployWorker(s, model, runtime, serviceURL, err) ==
    IF err # NoErr THEN s ELSE Set(s, model, runtime, serviceURL)

\* where Controller.DeployModel goes after registry.Set (line 42)
DeployModelSkipsWait == "returnOK"

DeployModelAfterSet == "waitForReady"

\* DeployWorker returned to p's caller with (serviceURL, err); c is p's call
\* record at that moment.  The caller's code up to its next blocking point
\* runs here: the error return, or registry.Set followed by the handler's
\* response / the entry into waitForReady.
DeployWorkerReturns(p, c, err) ==
    LET names == DeployWorkerNames(c.model, c.runtime, c.quant)
        url == IF err = NoErr THEN names.serviceURL ELSE <<>>
        s2 == RegisterAfterDeployWorker(store, c.model, c.runtime, url, err)
        c2 == [c EXCEPT !.dwErr = err, !.provisioned = (err = NoErr),
                        !.wrote = (s2 # store)]
    IN  /\ store' = s2
        /\ IF err # NoErr
           THEN /\ call' = [call EXCEPT ![p] = [c2 EXCEPT !.result =
                       IF c.op = "DeployModel"
                       THEN [kind |-> "err", err |-> <<"failed to deploy worker", err>>]
                       ELSE [kind |-> "http", status |-> 500, err |-> err]]]
                /\ pc' = [pc EXCEPT ![p] = "done"]
           ELSE IF c.op = "DeployHandler"
           THEN /\ call' = [call EXCEPT ![p] = [c2 EXCEPT !.result =
                       [kind |-> "http", status |-> 200, endpoint |-> url,
                        statusText |-> "deploying",
                        namespace |-> names.namespace,
                        deployment |-> names.deploymentName,
                        service |-> names.serviceName]]]
                /\ pc' = [pc EXCEPT ![p] = "done"]
           ELSE IF DeployModelAfterSet = "waitForReady"
           THEN /\ call' = [call EXCEPT ![p] = c2]
                /\ pc' = [pc EXCEPT ![p] = "waitForReady"]
           ELSE /\ call' = [call EXCEPT ![p] = [c2 EXCEPT !.result =
                       [kind |-> "ok", endpoint |-> url]]]
                /\ pc' = [pc EXCEPT ![p] = "done"]

\* DeployWorker, lines 87-95: loadRuntimeConfig, then loadModelConfig; the
\* error of the first lookup that misses
LoadConfigsSkipsModel(model, runtime) ==
    IF runtime \notin ConfigRuntimes THEN "runtime not found in config" ELSE NoErr

LoadConfigs(model, runtime) ==
    IF runtime \notin ConfigRuntimes THEN "runtime not found in config"
    ELSE IF model \notin ConfigModels THEN "model not found in config"
    ELSE NoErr

\* DeployWorker, lines 80-95: NewClient, loadRuntimeConfig, loadModelConfig
DeployWorkerBegin(p) ==
    /\ pc[p] = "DeployWorker"
    /\ \/ /\ DeployWorkerReturns(p, call[p], "failed to create k8s config")
       \/ /\ LoadConfigs(call[p].model, call[p].runtime) # NoErr
          /\ DeployWorkerReturns(p, call[p], LoadConfigs(call[p].model, call[p].runtime))
       \/ /\ LoadConfigs(call[p].model, call[p].runtime) = NoErr
          /\ pc' = [pc EXCEPT ![p] = "createDeployment"]
          /\ UNCHANGED <<store, call>>
    /\ UNCHANGED <<regVars, clusterVars>>
    /\ UNCHANGED dbClient

\* DeployWorker line 106 / createDeployment: Deployments(namespace).Create.
\* The API server refuses a second object of the same name (AlreadyExists);
\* any call can also fail for a reason of the cluster's own.
CreateDeployment(p) ==
    /\ pc[p] = "createDeployment"
    /\ LET c == [call[p] EXCEPT !.creates = @ \cup {"deployment"}]
           names == DeployWorkerNames(c.model, c.runtime, c.quant)
       IN  \/ /\ names.deploymentName \in DeploymentNames
              /\ DeployWorkerReturns(p, c, "deployment already exists")
              /\ UNCHANGED clusterVars
           \/ /\ DeployWorkerReturns(p, c, "cluster api error")
              /\ UNCHANGED clusterVars
           \/ /\ names.deploymentName \notin DeploymentNames
              /\ deployments' = deployments \cup
                    {[name |-> names.deploymentName, model |-> c.model,
                      runtime |-> c.runtime, quant |-> c.quant,
                      podLabels |-> DeploymentLabels(c.model, c.runtime),
                      replicas |-> Replicas, uid |-> p]}
              /\ readyReplicas' = [n \in DeploymentNames \cup {names.deploymentName} |->
                                     IF n \in DeploymentNames THEN readyReplicas[n] ELSE 0]
              /\ call' = [call EXCEPT ![p] = c]
              /\ pc' = [pc EXCEPT ![p] = "createService"]
              /\ UNCHANGED <<store, services>>
    /\ UNCHANGED regVars
    /\ UNCHANGED dbClient

\* DeployWorker line 112 / createService: Services(namespace).Create; on
\* success DeployWorker returns (serviceURL, namespace, names, nil)
CreateService(p) ==
    /\ pc[p] = "createService"
    /\ LET c == [call[p] EXCEPT !.creates = @ \cup {"service"}]
           names == DeployWorkerNames(c.model, c.runtime, c.quant)
       IN  \/ /\ names.serviceName \in ServiceNames
              /\ DeployWorkerReturns(p, c, "service already exists")
              /\ UNCHANGED services
           \/ /\ DeployWorkerReturns(p, c, "cluster api error")
              /\ UNCHANGED services
           \/ /\ names.serviceName \notin ServiceNames
              /\ services' = services \cup
                    {[name |-> names.serviceName,
                      selector |-> ServiceSelector(names.deploymentName),
                      uid |-> p]}
              /\ DeployWorkerReturns(p, c, NoErr)
    /\ UNCHANGED <<regVars, deployments, readyReplicas>>
    /\ UNCHANGED dbClient

\* waitForReady, `case <-ctx.Done(): return ctx.Err()`: the 5-minute deadline
\* elapsed or the caller's context was cancelled; DeployModel returns the
\* error.  No clock is kept here: the caller's context can be cancelled, or
\* carry a deadline of its own, at any moment of the wait.
WaitCtxDone(p) ==
    /\ pc[p] = "waitForReady"
    /\ \E how \in {"deadline", "canceled"} :
         call' = [call EXCEPT ![p].wait = how,
                              ![p].result = [kind |-> "err",
                                 err |-> <<"deployment failed to become ready", how>>]]
    /\ pc' = [pc EXCEPT ![p] = "done"]
    /\ UNCHANGED <<store, regVars, clusterVars>>
    /\ UNCHANGED dbClient

\* waitForReady, `case <-time.After(5 * time.Second)`: one readiness check
WaitPoll(p) ==
    /\ pc[p] = "waitForReady"
    /\ LET name == DeployWorkerNames(call[p].model, call[p].runtime, call[p].quant).deploymentName
           c == [call[p] EXCEPT !.polled = TRUE]
       IN  \/ \* NewClient or Deployments(namespace).Get failed
              /\ call' = [call EXCEPT ![p] = [c EXCEPT !.wait = "checkerr",
                            !.result = [kind |-> "err",
                               err |-> <<"deployment failed to become ready", "checkerr">>]]]
              /\ pc' = [pc EXCEPT ![p] = "done"]
           \/ /\ name \in DeploymentNames
              /\ IF IsDeploymentReady(readyReplicas[name])
                 THEN /\ call' = [call EXCEPT ![p] = [c EXCEPT !.wait = "ready",
                            !.sawReady = (readyReplicas[name] = Replicas),
                            !.result = [kind |-> "ok",
                               endpoint |-> DeployWorkerNames(c.model, c.runtime, c.quant).serviceURL]]]
                      /\ pc' = [pc EXCEPT ![p] = "done"]
                 ELSE /\ call' = [call EXCEPT ![p] = c]
                      /\ pc' = pc
    /\ UNCHANGED <<store, regVars, clusterVars>>
    /\ UNCHANGED dbClient

\* the cluster: the pod of a workload passes or fails its readiness probe
PodReadyChange ==
    /\ \E n \in DeploymentNames :
         readyReplicas' = [readyReplicas EXCEPT ![n] = Replicas - @]
    /\ UNCHANGED <<store, regVars, pc, call, deployments, services>>
    /\ UNCHANGED dbClient

Init == RegInit

Next ==
    \/ \E p \in Procs :
          \/ StartDeployModel(p)
          \/ StartDeployHandler(p)
          \/ DeployWorkerBegin(p)
          \/ CreateDeployment(p)
          \/ CreateService(p)
          \/ WaitCtxDone(p)
          \/ WaitPoll(p)
    \/ PodReadyChange

Spec == Init /\ [][Next]_vars

\* the scheduler runs every goroutine that can take a step, and the cluster
\* keeps answering
FairSpec == Spec /\ WF_vars(Next)

Key(p) == makeKey(call[p].model, call[p].runtime)

\* the stored value of a Registry entry carries the given word (a status or
\* a failure message)
EntryRecords(v, word) == \E i \in DOMAIN v : v[i] = word

\* C2: Controller.DeployModel for a pair that already has a Registry entry
\* returns that entry's endpoint with no error, makes no cluster create call,
\* makes no readiness check and does not write the Registry.
C2_FastPathFrame ==
    \A p \in Procs :
        (call[p].op = "DeployModel" /\ call[p].hadEntry) =>
            /\ pc[p] = "done"
            /\ call[p].result = [kind |-> "ok", endpoint |-> call[p].entry]
            /\ call[p].creates = {}
            /\ ~call[p].polled
            /\ ~call[p].wrote
            /\ Key(p) \in DOMAIN store /\ store[Key(p)] = call[p].entry

\* a DeployModel call that found the entry another call registered
C2_Witness ==
    \E p \in Procs :
        /\ call[p].op = "DeployModel" /\ call[p].hadEntry /\ call[p].fast
        /\ call[p].result.kind = "ok"
        /\ call[p].result.endpoint =
             DeployWorkerNames(M1, Vllm, call[p].quant).serviceURL

\* C3: whatever the interleaving of Deploy calls on the same (model, runtime)
\* pair, the cluster never holds two distinct workloads for that pair.
C3_OneWorkloadPerKey ==
    \A model \in ReqModels, runtime \in ReqRuntimes :
        Cardinality({d \in deployments : d.model = model /\ d.runtime = runtime}) <= 1

\* two calls on the same pair both passed the existence check before either
\* registered, and both issued the create call for the workload
C3_Witness ==
    \E p \in Procs, q \in Procs :
        /\ p # q
        /\ call[p].op = "DeployModel" /\ call[q].op # "none"
        /\ call[p].model = call[q].model /\ call[p].runtime = call[q].runtime
        /\ call[p].quant # call[q].quant
        /\ ~call[p].hadEntry /\ ~call[q].hadEntry
        /\ "deployment" \in call[p].creates /\ "deployment" \in call[q].creates
        /\ call[q].dwErr = "deployment already exists"
        /\ Cardinality(deployments) = 1

\* C4 (as claimed): once the readiness polling of a deployment ended by the
\* deadline or by a failed readiness check, the Registry entry of the pair
\* records the Failed status and the failure message.
C4_FailureRecorded ==
    \A p \in Procs :
        (pc[p] = "done" /\ call[p].wait \in {"deadline", "checkerr"}) =>
            /\ Key(p) \in DOMAIN store
            /\ EntryRecords(store[Key(p)], "failed")
            /\ EntryRecords(store[Key(p)], call[p].wait)

\* C5 (as claimed): after the poll that observed ready = desired the Registry
\* entry of the pair is Ready; after the deadline it is Failed with a
\* timeout message.
C5_ReadyOrTimeoutRecorded ==
    \A p \in Procs :
        /\ (pc[p] = "done" /\ call[p].sawReady) =>
              (Key(p) \in DOMAIN store /\ EntryRecords(store[Key(p)], "ready"))
        /\ (pc[p] = "done" /\ call[p].wait = "deadline") =>
              (Key(p) \in DOMAIN store /\ EntryRecords(store[Key(p)], "timeout"))

\* C6 (as claimed): every request the HTTP deploy endpoint answered with
\* status "deploying" eventually has Ready or Failed recorded for its pair.
C6_AcceptedReachesTerminal ==
    \A p \in Procs :
        (call[p].op = "DeployHandler" /\ call[p].result.kind = "http"
            /\ call[p].result.status = 200)
        ~> (/\ call[p].op = "DeployHandler"
            /\ Key(p) \in DOMAIN store
            /\ \/ EntryRecords(store[Key(p)], "ready")
               \/ EntryRecords(store[Key(p)], "failed"))

\* C7 (as claimed): Deploy returns as soon as provisioning and registration
\* are done, and its return does not depend on a readiness check.
C7_ReturnsWithoutWaiting ==
    \A p \in Procs :
        (call[p].op # "none" /\ call[p].provisioned) =>
            (pc[p] = "done" /\ ~call[p].polled)

\* C7 (amended): the HTTP deploy handler returns as soon as provisioning and
\* registration are done, with no readiness check; Controller.DeployModel on
\* a pair without an entry has not returned while waitForReady runs, and
\* returns only after waitForReady ended, whose polling runs inside the call.
C7_HandlerReturnsControllerWaits ==
    \A p \in Procs :
        (call[p].op # "none" /\ call[p].provisioned) =>
            IF call[p].op = "DeployHandler"
            THEN pc[p] = "done" /\ ~call[p].polled /\ call[p].wait = "none"
            ELSE /\ (pc[p] = "done") = (call[p].wait # "none")
                 /\ (pc[p] # "done") => call[p].result = NoResult
                 /\ call[p].polled => pc[p] \in {"waitForReady", "done"}

\* a handler answered "deploying" with no readiness check, and a DeployModel
\* call returned after its polling ended at the deadline
C7_Witness ==
    \E p \in Procs, q \in Procs :
        /\ call[p].op = "DeployHandler" /\ call[p].provisioned /\ pc[p] = "done"
        /\ call[q].op = "DeployModel" /\ call[q].provisioned /\ pc[q] = "done"
        /\ call[q].polled /\ call[q].wait = "deadline"

\* C8: when DeployWorker returns an error, the caller (DeployModel or the
\* HTTP handler) returns that error and has not changed the Registry.
C8_ProvisionErrorFrame ==
    \A p \in Procs :
        (call[p].op # "none" /\ call[p].dwErr # NoErr) =>
            /\ pc[p] = "done"
            /\ ~call[p].wrote
            /\ call[p].wait = "none"
            /\ IF call[p].op = "DeployModel"
               THEN call[p].result = [kind |-> "err",
                        err |-> <<"failed to deploy worker", call[p].dwErr>>]
               ELSE call[p].result = [kind |-> "http", status |-> 500,
                        err |-> call[p].dwErr]

\* a handler call got an error from DeployWorker after its workload was
\* created, and a DeployModel call on the same pair then got an error too
C8_Witness ==
    \E p \in Procs, q \in Procs :
        /\ call[p].op = "DeployModel" /\ call[p].dwErr = "deployment already exists"
        /\ call[p].result.kind = "err"
        /\ call[q].op = "DeployHandler" /\ call[q].dwErr = "cluster api error"
        /\ "service" \in call[q].creates
        /\ call[q].result.status = 500
        /\ store = NewRegistry

C10_HandlerReusesEntry ==
    \A p \in Procs :
        (call[p].op = "DeployHandler" /\ call[p].hadEntry /\ pc[p] = "done") =>
            /\ call[p].result.kind = "http" /\ call[p].result.status = 200
            /\ call[p].result.endpoint = call[p].entry
            /\ call[p].creates = {}

\* C18 (as claimed): the Service built for a pair selects the pods of the
\* workload built for the same pair: every key/value of the Service's
\* selector is among the labels of the workload's pod template.
C18_ServiceSelectsPods ==
    \A svc \in services, d \in deployments :
        svc.name = d.name =>
            \A k \in DOMAIN svc.selector :
                k \in DOMAIN d.podLabels /\ d.podLabels[k] = svc.selector[k]

\* ===================================================== resource name check
\* longest model identifier drawn from NameAlphabet
MaxNameLen == 3

NameAlphabet == {"a", "B", "/", ".", "-"}

ExampleModel ==
    <<"m", "e", "t", "a", "-", "l", "l", "a", "m", "a", "/",
      "L", "l", "a", "m", "a", "-", "3", "-", "8", "b", "-",
      "i", "n", "s", "t", "r", "u", "c", "t">>

NameModels ==
    UNION {[1..k -> NameAlphabet] : k \in 0..MaxNameLen} \cup {ExampleModel, M1, M2}

\* the goroutine that runs the name computation
NameCaller == 1

\* DeployWorker lines 97-118 applied to one request: the names it generates
ComputeNames(p) ==
    /\ pc[p] = "idle"
    /\ \E model \in NameModels, runtime \in ReqRuntimes, quant \in Quants :
         call' = [call EXCEPT ![p] =
                    [op |-> "DeployWorkerNames", model |-> model,
                     runtime |-> runtime, quant |-> quant,
                     result |-> [kind |-> "names",
                                 names |-> DeployWorkerNames(model, runtime, quant)]]]
    /\ pc' = [pc EXCEPT ![p] = "done"]
    /\ UNCHANGED <<store, regVars, clusterVars>>
    /\ UNCHANGED dbClient

NameNext == \E p \in {NameCaller} : ComputeNames(p)

NameSpec == RegInit /\ [][NameNext]_vars

\* the slug of one character, as the specification words it
SlugChar(c) ==
    IF c = "/" \/ c = "." THEN "-"
    ELSE IF c = "B" THEN "b"
    ELSE IF c = "L" THEN "l"
    ELSE IF c = "N" THEN "n"
    ELSE c

\* C19: the resource name DeployWorker computes for (model, runtime) is
\* "worker-" + runtime + "-" + slug(model), slug lowercasing the identifier
\* and replacing every '/' and '.' by '-'; it does not depend on anything
\* but the pair, and meta-llama/Llama-3-8b-instruct with vllm gives
\* worker-vllm-meta-llama-llama-3-8b-instruct.
C19_ResourceName ==
    \A p \in Procs :
        call[p].op = "DeployWorkerNames" =>
            LET m == call[p].model
                r == call[p].runtime
                n == call[p].result.names.deploymentName
            IN  /\ n = <<"worker-">> \o r \o <<"-">> \o [i \in 1..Len(m) |-> SlugChar(m[i])]
                /\ call[p].result.names.serviceName = n
                /\ \A q \in Quants : DeployWorkerNames(m, r, q).deploymentName = n
                /\ (m = ExampleModel /\ r = Vllm) =>
                     n = <<"worker-", "v", "l", "l", "m", "-",
                           "m", "e", "t", "a", "-", "l", "l", "a", "m", "a", "-",
                           "l", "l", "a", "m", "a", "-", "3", "-", "8", "b", "-",
                           "i", "n", "s", "t", "r", "u", "c", "t">>

\* the name was computed for an identifier with an upper-case letter, a
\* slash and a dot
C19_Witness ==
    \E p \in Procs :
        /\ call[p].op = "DeployWorkerNames"
        /\ call[p].model = <<"B", "/", ".">>
        /\ call[p].result.names.deploymentName =
             <<"worker-", "v", "l", "l", "m", "-", "b", "-", "-">>

\* C20 (as claimed): after a Deploy of (model, runtime) whose readiness
\* check found the workload ready, the Registry entry of the pair has
\* status ready and the endpoint
\* http://worker-<runtime>-<slug(model)>.default.svc.cluster.local:8000,
\* which is the endpoint returned to the caller.
C20_ReadyEntryWithEndpoint ==
    \A p \in Procs :
        (call[p].op = "DeployModel" /\ pc[p] = "done" /\ call[p].sawReady) =>
            LET url == <<"http://", "worker-">> \o call[p].runtime \o <<"-">>
                         \o [i \in 1..Len(call[p].model) |-> SlugChar(call[p].model[i])]
                         \o <<".", "default", ".svc.cluster.local:8000">>
            IN  /\ call[p].result = [kind |-> "ok", endpoint |-> url]
                /\ Key(p) \in DOMAIN store
                /\ \E i, j \in DOMAIN store[Key(p)] : SubSeq(store[Key(p)], i, j) = url
                /\ EntryRecords(store[Key(p)], "ready")

\* ======================================================= inference gateway
\* longest backend output text
MaxTextLen == 3

\* largest max_tokens a request carries
MaxTok == 2

TextAlphabet == {"a", "b", " ", "\n"}

Texts == UNION {[1..k -> TextAlphabet] : k \in 0..MaxTextLen}

IsSpace(c) == c = " " \/ c = "\n"

RECURSIVE FieldsFrom(_, _, _, _)
FieldsFrom(t, i, cur, acc) ==
    IF i > Len(t)
    THEN IF cur = <<>> THEN acc ELSE Append(acc, cur)
    ELSE IF IsSpace(t[i])
         THEN FieldsFrom(t, i + 1, <<>>, IF cur = <<>> THEN acc ELSE Append(acc, cur))
         ELSE FieldsFrom(t, i + 1, Append(cur, t[i]), acc)

\* bytes.Fields: the maximal runs of non-space bytes, in order
Fields(t) == FieldsFrom(t, 1, <<>>, <<>>)

Prompt == <<"h", "i">>

InferModels == {<<>>, M1, MX}
InferRuntimes == {<<>>, Vllm}
InferPrompts == {<<>>, Prompt}

\* the request bodies: well-formed JSON with any fields left out, or a body
\* the decoder rejects (req keeps its zero value)
InferRequests ==
    [model : InferModels, runtime : InferRuntimes, prompt : InferPrompts,
     stream : BOOLEAN, maxTokens : 0..MaxTok, malformed : {FALSE}]
    \cup {[model |-> <<>>, runtime |-> <<>>, prompt |-> <<>>,
           stream |-> FALSE, maxTokens |-> 0, malformed |-> TRUE]}

EventStream == <<"text/event-stream">>
EventStreamCharset == <<"text/event-stream", ";", " charset=utf-8">>
ApplicationJSON == <<"application/json">>

BackendStatuses == {200, 500}

\* a synchronous payload: one JSON object carrying the output text
JSONBody(text) == <<[kind |-> "json", output |-> text]>>

\* an event stream: the worker's events, sent one chunk at a time
SSEBody ==
    <<[kind |-> "sse", output |-> <<"a">>], [kind |-> "sse", output |-> <<"b">>]>>

BackendResponses ==
    [status : BackendStatuses, ctype : {ApplicationJSON},
     body : {JSONBody(t) : t \in Texts}]
    \cup [status : BackendStatuses, ctype : {EventStream, EventStreamCharset},
          body : {SSEBody}]

NoBackend == [status |-> 0, ctype |-> <<>>, body |-> <<>>]

\* json.Unmarshal(respBody, &resp): succeeds on a JSON object only
Unmarshal(body) ==
    IF Len(body) = 1 /\ body[1].kind = "json"
    THEN [ok |-> TRUE, output |-> body[1].output]
    ELSE [ok |-> FALSE, output |-> <<>>]

\* w.Write(respBody): the bytes read from the worker, as they came
Bytes(body) == [i \in DOMAIN body |-> [kind |-> "bytes", chunk |-> body[i]]]

ErrorText(msg) == [kind |-> "error", text |-> msg]

\* TRUE when the request is rejected by the validation
InferValidateNoPrompt(req) == req.model = <<>> \/ req.runtime = <<>>

InferValidate(req) == req.model = <<>> \/ req.runtime = <<>> \/ req.prompt = <<>>

NonStreamStatusOK(workerStatus) == 200

NonStreamStatus(workerStatus) == workerStatus

\* the stream branch synthesizes events unless the header is this string
IsSyntheticBranch(ctype) == ctype # EventStream

SyntheticEvent(tokens, i) ==
    [kind |-> "event", token |-> tokens[i + 1], index |-> i,
     is_last |-> (i = Len(tokens) - 1)]

\* the goroutine that serves the inference request
InferCaller == 1

InferCall(req) ==
    [op |-> "Infer", model |-> req.model, runtime |-> req.runtime,
     prompt |-> req.prompt, stream |-> req.stream, maxTokens |-> req.maxTokens,
     malformed |-> req.malformed, result |-> NoResult,
     outbound |-> FALSE, backend |-> NoBackend, received |-> 0,
     status |-> 0, out |-> <<>>, mode |-> "none", parsed |-> FALSE,
     tokens |-> <<>>, i |-> 0, connected |-> TRUE, midStream |-> FALSE,
     late |-> 0]

InferInit ==
    /\ store = Set(NewRegistry, M1, Vllm, URLa)
    /\ mu = [writer |-> 0, readers |-> {}]
    /\ pc = [p \in Procs |-> "idle"]
    /\ call = [p \in Procs |-> IdleCall]
    /\ lastSet = Set(NewRegistry, M1, Vllm, URLa)
    /\ deployments = {}
    /\ services = {}
    /\ readyReplicas = [n \in {} |-> 0]
    /\ dbClient = NewClient(0)

\* http.Error before anything was written: status and message
Rejected(c, code, msg) ==
    [c EXCEPT !.status = code, !.out = <<ErrorText(msg)>>]

\* decode, validate, look the worker up
StartInfer(p) ==
    /\ pc[p] = "idle"
    /\ call[p].op = "none"
    /\ mu.writer = 0
    /\ \E req \in InferRequests :
         LET c == InferCall(req)
             got == Get(store, req.model, req.runtime)
         IN  IF req.malformed
             THEN /\ call' = [call EXCEPT ![p] = Rejected(c, 400, "decode error")]
                  /\ pc' = [pc EXCEPT ![p] = "done"]
             ELSE IF InferValidate(req)
             THEN /\ call' = [call EXCEPT ![p] =
                        Rejected(c, 400, "model, runtime, and prompt are required")]
                  /\ pc' = [pc EXCEPT ![p] = "done"]
             ELSE IF ~got[2]
             THEN /\ call' = [call EXCEPT ![p] =
                        Rejected(c, 404, "model not deployed with specified runtime")]
                  /\ pc' = [pc EXCEPT ![p] = "done"]
             ELSE /\ call' = [call EXCEPT ![p] = c]
                  /\ pc' = [pc EXCEPT ![p] = "post"]
    /\ UNCHANGED <<store, regVars, clusterVars>>
    /\ UNCHANGED dbClient

\* the Registry after the worker could not be reached: the handler answers
\* 503 and leaves the entry of the pair where it is
EvictOnUpstreamFailure(s, model, runtime) == Delete(s, model, runtime)

RegistryAfterUpstreamFailure(s, model, runtime) == s

\* http.Post(workerURL + "/infer"): fails, or the response headers arrive
PostToWorker(p) ==
    /\ pc[p] = "post"
    /\ \/ /\ call' = [call EXCEPT ![p] =
                Rejected([call[p] EXCEPT !.outbound = TRUE], 503,
                         "failed to connect to worker")]
          /\ pc' = [pc EXCEPT ![p] = "done"]
          /\ store' = RegistryAfterUpstreamFailure(store, call[p].model, call[p].runtime)
       \/ \E resp \in BackendResponses :
            /\ call' = [call EXCEPT ![p].outbound = TRUE, ![p].backend = resp]
            /\ pc' = [pc EXCEPT ![p] = "readAll"]
            /\ UNCHANGED store
    /\ UNCHANGED <<regVars, clusterVars>>
    /\ UNCHANGED dbClient

\* io.ReadAll receives the next chunk of the worker's body
ReadChunk(p) ==
    /\ pc[p] = "readAll"
    /\ call[p].received < Len(call[p].backend.body)
    /\ call' = [call EXCEPT ![p].received = @ + 1]
    /\ UNCHANGED <<pc, store, regVars, clusterVars>>
    /\ UNCHANGED dbClient

\* io.ReadAll returns an error
ReadFail(p) ==
    /\ pc[p] = "readAll"
    /\ call[p].received < Len(call[p].backend.body)
    /\ call' = [call EXCEPT ![p] =
            Rejected(call[p], 500, "failed to read worker response")]
    /\ pc' = [pc EXCEPT ![p] = "done"]
    /\ UNCHANGED <<store, regVars, clusterVars>>
    /\ UNCHANGED dbClient

\* the stream branch once the body is read: headers, the worker's bytes,
\* then either nothing more or the synthesized events
StreamWritten(c) ==
    LET w == [c EXCEPT !.status = c.backend.status, !.out = Bytes(c.backend.body)]
        u == Unmarshal(c.backend.body)
    IN  IF ~IsSyntheticBranch(c.backend.ctype)
        THEN [w EXCEPT !.mode = "native"]
        ELSE IF ~u.ok
        THEN [w EXCEPT !.mode = "synthetic",
                       !.out = Append(w.out, ErrorText("failed to parse worker response"))]
        ELSE [w EXCEPT !.mode = "synthetic", !.parsed = TRUE,
                       !.tokens = Fields(u.output)]

\* io.ReadAll reached the end of the worker's body: the response is written
ReadDone(p) ==
    /\ pc[p] = "readAll"
    /\ call[p].received = Len(call[p].backend.body)
    /\ LET c == call[p] IN
         IF ~c.stream
         THEN /\ call' = [call EXCEPT ![p] =
                    [c EXCEPT !.status = NonStreamStatus(c.backend.status),
                              !.out = Bytes(c.backend.body),
                              !.mode = "nonstream"]]
              /\ pc' = [pc EXCEPT ![p] = "done"]
         ELSE \/ /\ ~c.connected
                 /\ call' = [call EXCEPT ![p] =
                       [c EXCEPT !.status = c.backend.status, !.mode = "aborted"]]
                 /\ pc' = [pc EXCEPT ![p] = "done"]
              \/ /\ call' = [call EXCEPT ![p] = StreamWritten(c)]
                 /\ pc' = [pc EXCEPT ![p] =
                       IF StreamWritten(c).tokens = <<>> THEN "done" ELSE "emit"]
    /\ UNCHANGED <<store, regVars, clusterVars>>
    /\ UNCHANGED dbClient

\* one iteration of the token loop: marshal, write, flush, sleep
EmitToken(p) ==
    /\ pc[p] = "emit"
    /\ call[p].i < Len(call[p].tokens)
    /\ call' = [call EXCEPT
                  ![p].out = Append(@, SyntheticEvent(call[p].tokens, call[p].i)),
                  ![p].late = IF call[p].midStream THEN @ + 1 ELSE @,
                  ![p].i = @ + 1]
    /\ pc' = [pc EXCEPT ![p] =
                IF call[p].i + 1 = Len(call[p].tokens) THEN "done" ELSE "emit"]
    /\ UNCHANGED <<store, regVars, clusterVars>>
    /\ UNCHANGED dbClient

\* the caller closes its connection while the handler is running
ClientDisconnect(p) ==
    /\ pc[p] \in {"readAll", "emit"}
    /\ call[p].connected
    /\ call' = [call EXCEPT ![p].connected = FALSE,
                             ![p].midStream = (pc[p] = "emit")]
    /\ UNCHANGED <<pc, store, regVars, clusterVars>>
    /\ UNCHANGED dbClient

InferNext ==
    \E p \in {InferCaller} :
        \/ StartInfer(p)
        \/ PostToWorker(p)
        \/ ReadChunk(p)
        \/ ReadFail(p)
        \/ ReadDone(p)
        \/ EmitToken(p)
        \/ ClientDisconnect(p)

InferSpec == InferInit /\ [][InferNext]_vars

\* the events among what the handler wrote, in the order written
Events(out) == SelectSeq(out, LAMBDA o : o.kind = "event")

\* C16: a worker is called only for a request with model, runtime and
\* prompt all present whose pair is in the Registry; a request with a
\* missing field ends with 400 and one for an absent pair with 404, neither
\* having called a worker.
C16_OutboundOnlyWhenRouted ==
    \A p \in Procs :
        call[p].op = "Infer" =>
            LET c == call[p]
                missing == c.model = <<>> \/ c.runtime = <<>> \/ c.prompt = <<>>
                present == makeKey(c.model, c.runtime) \in DOMAIN store
            IN  /\ c.outbound => (~missing /\ present)
                /\ pc[p] # "idle" /\ missing => (pc[p] = "done" /\ c.status = 400 /\ ~c.outbound)
                /\ pc[p] # "idle" /\ ~missing /\ ~present =>
                       (pc[p] = "done" /\ c.status = 404 /\ ~c.outbound)

\* one request was refused for its absent pair and made no outbound call
C16_Witness ==
    \E p \in Procs :
        /\ call[p].op = "Infer"
        /\ pc[p] = "done"
        /\ call[p].model = MX /\ call[p].runtime = Vllm /\ call[p].prompt = Prompt
        /\ call[p].status = 404
        /\ ~call[p].outbound

Min(a, b) == IF a < b THEN a ELSE b

\* the positions of a text where a whitespace-delimited token begins
TokenStarts(t) ==
    {i \in 1..Len(t) : ~IsSpace(t[i]) /\ (i = 1 \/ IsSpace(t[i - 1]))}

\* the k-th whitespace-delimited token of a text, k counted from 0
KthToken(t, k) ==
    LET s == CHOOSE x \in TokenStarts(t) :
                 Cardinality({y \in TokenStarts(t) : y < x}) = k
        e == CHOOSE x \in s..Len(t) :
                 /\ \A j \in s..x : ~IsSpace(t[j])
                 /\ (x = Len(t) \/ IsSpace(t[x + 1]))
    IN  SubSeq(t, s, e)

\* the media type a Content-Type header value denotes: what precedes ';'
MediaType(h) ==
    IF \E i \in DOMAIN h : h[i] = ";"
    THEN SubSeq(h, 1, (CHOOSE i \in DOMAIN h :
                          h[i] = ";" /\ \A j \in 1..(i - 1) : h[j] # ";") - 1)
    ELSE h

\* a finished streaming call that synthesized its events from a parsed
\* synchronous payload
SyntheticDone(p) ==
    /\ call[p].op = "Infer"
    /\ pc[p] = "done"
    /\ call[p].mode = "synthetic"
    /\ call[p].parsed

\* C11 (as claimed): a synthetic stream with max_tokens >= 1 emits exactly
\* min(n, max_tokens) events, n the number of whitespace-delimited tokens
\* of the worker's output; the k-th event carries the k-th token and
\* index k, in increasing index order.
C11_EmitsMinOfTokensAndMax ==
    \A p \in Procs :
        (SyntheticDone(p) /\ call[p].maxTokens >= 1) =>
            LET text == call[p].backend.body[1].output
                E == Events(call[p].out)
            IN  /\ Len(E) = Min(Cardinality(TokenStarts(text)), call[p].maxTokens)
                /\ \A k \in 0..(Len(E) - 1) :
                       /\ E[k + 1].index = k
                       /\ E[k + 1].token = KthToken(text, k)

\* C12 (as claimed): every synthetic stream ends with an event whose
\* is_last is true and no earlier event has is_last true, whatever the
\* worker's output text, one without tokens included.
C12_EndsWithIsLast ==
    \A p \in Procs :
        SyntheticDone(p) =>
            LET E == Events(call[p].out)
            IN  /\ E # <<>>
                /\ E[Len(E)].is_last
                /\ \A k \in 1..(Len(E) - 1) : ~E[k].is_last

\* C13 (as claimed): a streaming call whose worker declared an event-stream
\* content type, with or without parameters, hands the caller exactly the
\* worker's bytes under the worker's status: no synthesized event and no
\* error text.
C13_EventStreamIsProxied ==
    \A p \in Procs :
        (call[p].op = "Infer" /\ pc[p] = "done" /\ call[p].stream
            /\ call[p].mode \in {"native", "synthetic"}
            /\ MediaType(call[p].backend.ctype) = EventStream) =>
                /\ call[p].out = Bytes(call[p].backend.body)
                /\ call[p].status = call[p].backend.status

\* C14 (as claimed): in a native stream every chunk received from the
\* worker has been written to the caller before the next one is awaited.
C14_ChunkWrittenBeforeNextRead ==
    \A p \in Procs :
        (call[p].op = "Infer" /\ pc[p] = "readAll" /\ call[p].stream
            /\ call[p].connected
            /\ ~IsSyntheticBranch(call[p].backend.ctype)) =>
                /\ Len(call[p].out) = call[p].received
                /\ \A k \in 1..call[p].received :
                       call[p].out[k] = Bytes(call[p].backend.body)[k]

\* C15 (as claimed): once the caller has disconnected during the emission
\* of a synthetic stream, the loop runs no further iteration: no event and
\* no pacing delay.
C15_DisconnectStopsLoop ==
    \A p \in Procs :
        call[p].op = "Infer" => call[p].late = 0

\* C21: a DeployWorker call whose runtime or model has no descriptor in the
\* configuration returns an error and issues no cluster create call, for
\* the workload or for the network object.
C21_MissingConfigNoCreate ==
    \A p \in Procs :
        (call[p].op \in {"DeployModel", "DeployHandler"}
            /\ pc[p] \notin {"idle", "DeployWorker"}
            /\ ~call[p].fast
            /\ ~(call[p].op = "DeployHandler" /\ (call[p].model = <<>> \/ call[p].runtime = <<>>))
            /\ (call[p].runtime \notin ConfigRuntimes \/ call[p].model \notin ConfigModels)) =>
                /\ pc[p] = "done"
                /\ call[p].dwErr # NoErr
                /\ call[p].result.kind \in {"err", "http"}
                /\ call[p].result.kind = "http" => call[p].result.status = 500
                /\ call[p].creates = {}
                /\ \A d \in deployments : d.uid # p
                /\ \A svc \in services : svc.uid # p

\* one call failed on a runtime without descriptor and another on a model
\* without descriptor
C21_Witness ==
    \E p, q \in Procs :
        /\ pc[p] = "done" /\ call[p].op = "DeployModel"
        /\ call[p].runtime = RX /\ call[p].model = M1
        /\ call[p].dwErr = "runtime not found in config"
        /\ pc[q] = "done" /\ call[q].op = "DeployHandler"
        /\ call[q].runtime = Vllm /\ call[q].model = MX
        /\ call[q].result.status = 500
        /\ call[q].dwErr = "model not found in config"

\* C26 (as claimed): a DeployWorker call that returned an error left no
\* cluster object of its own behind, workload or network object.
C26_FailedProvisionLeavesNothing ==
    \A p \in Procs :
        (call[p].op \in {"DeployModel", "DeployHandler"}
            /\ pc[p] = "done"
            /\ call[p].dwErr # NoErr) =>
                /\ \A d \in deployments : d.uid # p
                /\ \A svc \in services : svc.uid # p

\* C22: List hands out a snapshot copy.  Whatever a caller did to a
\* collection it was handed, the Registry holds exactly what the Set and
\* Delete calls left (so every later Get and List reads that), and a
\* collection its holder did not change still reads as when List returned
\* it, whatever Set and Delete calls came later.
C22_ListIsSnapshot ==
    /\ store = lastSet
    /\ \A p \in Procs :
          (call[p].result.kind = "list" /\ ~call[p].result.mutated) =>
              call[p].result.entries = call[p].result.expect

\* a caller changed the collection it held and the Registry was written
\* after another caller was handed its collection
C22_Witness ==
    \E p, q \in Procs :
        /\ p # q
        /\ call[p].result.kind = "list" /\ call[p].result.mutated
        /\ call[p].result.entries # store
        /\ call[q].result.kind = "list" /\ ~call[q].result.mutated
        /\ call[q].result.entries # store
        /\ store # NewRegistry

\* the statuses of a Registry entry, in lifecycle order
StatusRank ==
    [w \in {"pending", "deploying", "ready", "failed"} |->
        CASE w = "pending" -> 1
          [] w = "deploying" -> 2
          [] OTHER -> 3]

\* the statuses a stored value records
StatusesOf(v) == {w \in DOMAIN StatusRank : EntryRecords(v, w)}

C24_InferLeavesRegistry == [][store' = store]_vars

\* requests ended in each way with the pair's entry still in the Registry:
\* here the worker could not be reached
C24_Witness ==
    \E p \in Procs :
        /\ call[p].op = "Infer" /\ pc[p] = "done"
        /\ call[p].outbound /\ call[p].status = 503
        /\ store = Set(NewRegistry, M1, Vllm, URLa)

\* C29 (as claimed): the body of a synthetic stream holds token events
\* only, the worker's synchronous payload being written neither before nor
\* after them; when the payload cannot be parsed the caller gets an error
\* status, not the worker's status followed by the payload.
C29_SyntheticBodyIsEventsOnly ==
    \A p \in Procs :
        (call[p].op = "Infer" /\ pc[p] = "done" /\ call[p].mode = "synthetic") =>
            IF call[p].parsed
            THEN \A k \in DOMAIN call[p].out : call[p].out[k].kind = "event"
            ELSE /\ call[p].status >= 400
                 /\ call[p].status # call[p].backend.status
                 /\ \A k \in DOMAIN call[p].out : call[p].out[k].kind # "bytes"

\* C28 (as claimed): the resource name and the endpoint address computed
\* for a pair are those of no other pair.
C28_NamesInjective ==
    \A p \in Procs :
        call[p].op = "DeployWorkerNames" =>
            \A m \in NameModels, r \in ReqRuntimes :
                <<m, r>> # <<call[p].model, call[p].runtime>> =>
                    /\ DeployWorkerNames(m, r, call[p].quant).deploymentName
                         # call[p].result.names.deploymentName
                    /\ DeployWorkerNames(m, r, call[p].quant).serviceURL
                         # call[p].result.names.serviceURL

\* ============================================= Registry keys of the pairs
\* model and runtime strings with and without ':'
PairModels == {<<"a">>, <<"a", ":">>}
PairRuntimes == {<<"b">>, <<":", "b">>}

\* the goroutine that calls the Registry
PairCaller == 1

\* Registry.Set, Delete and Get, each run whole under the lock; lastSet
\* keeps the history per (model, runtime) pair here, not per key string
PairSet(p) ==
    /\ pc[p] = "idle"
    /\ \E model \in PairModels, runtime \in PairRuntimes, url \in RegURLs :
         /\ store' = Set(store, model, runtime, url)
         /\ lastSet' = [k \in (DOMAIN lastSet) \cup {<<model, runtime>>} |->
                          IF k = <<model, runtime>> THEN url ELSE lastSet[k]]
         /\ call' = [call EXCEPT ![p] = [op |-> "Set", model |-> model,
                       runtime |-> runtime, url |-> url, result |-> [kind |-> "set"]]]
    /\ UNCHANGED <<pc, mu, clusterVars>>
    /\ UNCHANGED dbClient

PairDelete(p) ==
    /\ pc[p] = "idle"
    /\ \E model \in PairModels, runtime \in PairRuntimes :
         /\ store' = Delete(store, model, runtime)
         /\ lastSet' = [k \in (DOMAIN lastSet) \ {<<model, runtime>>} |-> lastSet[k]]
         /\ call' = [call EXCEPT ![p] = [op |-> "Delete", model |-> model,
                       runtime |-> runtime, result |-> [kind |-> "deleted"]]]
    /\ UNCHANGED <<pc, mu, clusterVars>>
    /\ UNCHANGED dbClient

PairGet(p) ==
    /\ pc[p] = "idle"
    /\ \E model \in PairModels, runtime \in PairRuntimes :
         call' = [call EXCEPT ![p] = [op |-> "Get", model |-> model,
                    runtime |-> runtime,
                    result |-> [kind |-> "get",
                                url |-> Get(store, model, runtime)[1],
                                found |-> Get(store, model, runtime)[2]]]]
    /\ UNCHANGED <<pc, store, mu, lastSet, clusterVars>>
    /\ UNCHANGED dbClient

PairNext == \E p \in {PairCaller} : PairSet(p) \/ PairDelete(p) \/ PairGet(p)

PairSpec == RegInit /\ [][PairNext]_vars

\* C27 (as claimed): a Get for a pair returns the value of the last Set for
\* that same pair not followed by a Delete for it, and not found otherwise:
\* Set and Delete calls for other pairs do not show in it, also when the
\* strings contain ':'.
C27_PairsDoNotShare ==
    \A p \in Procs :
        call[p].result.kind = "get" =>
            IF <<call[p].model, call[p].runtime>> \in DOMAIN lastSet
            THEN /\ call[p].result.found
                 /\ call[p].result.url = lastSet[<<call[p].model, call[p].runtime>>]
            ELSE /\ ~call[p].result.found
                 /\ call[p].result.url = <<>>

\* ================================================== waitForReady, timed
\* context.WithTimeout(ctx, 5*time.Minute), in seconds
WaitTimeout == 300

\* time.After(5 * time.Second), in seconds
PollInterval == 5

\* longest time one readiness check takes, in seconds
MaxCheckSecs == 1

\* the goroutine that runs Controller.DeployModel
WaitCaller == 1

\* ctx.Done() is readable: the deadline passed or the caller cancelled
CtxDoneOnCancelOnly(now, cancelled) == cancelled

CtxDone(now, cancelled) == now >= WaitTimeout \/ cancelled

\* DeployModel for (m1, vllm) has provisioned and registered the worker and
\* enters waitForReady: the clock starts and the first timer is armed
WaitInit ==
    LET names == DeployWorkerNames(M1, Vllm, <<"fp16">>)
        c == [NewCall("DeployModel", M1, Vllm, <<"fp16">>) EXCEPT
                 !.hadEntry = FALSE, !.entry = <<>>,
                 !.creates = {"deployment", "service"},
                 !.provisioned = TRUE, !.wrote = TRUE]
    IN  /\ store = Set(NewRegistry, M1, Vllm, names.serviceURL)
        /\ mu = [writer |-> 0, readers |-> {}]
        /\ pc = [p \in Procs |-> IF p = WaitCaller THEN "waitForReady" ELSE "idle"]
        /\ call = [p \in Procs |->
                     IF p = WaitCaller
                     THEN c @@ [now |-> 0, timer |-> PollInterval,
                                cancelled |-> FALSE, polls |-> 0]
                     ELSE IdleCall]
        /\ lastSet = [k \in {} |-> <<>>]
        /\ deployments = {[name |-> names.deploymentName, model |-> M1,
                           runtime |-> Vllm, quant |-> <<"fp16">>,
                           podLabels |-> DeploymentLabels(M1, Vllm),
                           replicas |-> Replicas, uid |-> WaitCaller]}
        /\ services = {[name |-> names.serviceName,
                        selector |-> ServiceSelector(names.deploymentName),
                        uid |-> WaitCaller]}
        /\ readyReplicas = [n \in {names.deploymentName} |-> 0]
        /\ dbClient = NewClient(0)

\* a second passes while the goroutine is blocked in the select: neither
\* channel is readable
WaitTick(p) ==
    /\ pc[p] = "waitForReady"
    /\ call[p].now < call[p].timer
    /\ ~CtxDone(call[p].now, call[p].cancelled)
    /\ call[p].now < WaitTimeout + PollInterval
    /\ call' = [call EXCEPT ![p].now = @ + 1]
    /\ UNCHANGED <<pc, store, regVars, clusterVars>>
    /\ UNCHANGED dbClient

\* the caller of DeployModel cancels its context
WaitCancel(p) ==
    /\ pc[p] = "waitForReady"
    /\ ~call[p].cancelled
    /\ call' = [call EXCEPT ![p].cancelled = TRUE]
    /\ UNCHANGED <<pc, store, regVars, clusterVars>>
    /\ UNCHANGED dbClient

\* `case <-ctx.Done(): return ctx.Err()`
TimedCtxDone(p) ==
    /\ pc[p] = "waitForReady"
    /\ CtxDone(call[p].now, call[p].cancelled)
    /\ LET how == IF call[p].cancelled THEN "canceled" ELSE "deadline"
       IN  call' = [call EXCEPT ![p].wait = how,
                                ![p].result = [kind |-> "err",
                                   err |-> <<"deployment failed to become ready", how>>]]
    /\ pc' = [pc EXCEPT ![p] = "done"]
    /\ UNCHANGED <<store, regVars, clusterVars>>
    /\ UNCHANGED dbClient

\* `case <-time.After(5 * time.Second)`: one readiness check under ctx,
\* taking d seconds; a check that ctx cuts short returns ctx's error
TimedPoll(p) ==
    /\ pc[p] = "waitForReady"
    /\ call[p].now >= call[p].timer
    /\ \E d \in 0..MaxCheckSecs :
         LET name == DeployWorkerNames(call[p].model, call[p].runtime, call[p].quant).deploymentName
             c == [call[p] EXCEPT !.polled = TRUE, !.polls = @ + 1]
             cut == CtxDone(c.now, c.cancelled) \/ CtxDone(c.now + d, c.cancelled)
             failed == [c EXCEPT !.wait = "checkerr",
                          !.now = IF c.now + d > WaitTimeout /\ c.now <= WaitTimeout
                                  THEN WaitTimeout ELSE c.now + d,
                          !.result = [kind |-> "err",
                             err |-> <<"deployment failed to become ready", "checkerr">>]]
         IN  \/ /\ call' = [call EXCEPT ![p] = failed]
                /\ pc' = [pc EXCEPT ![p] = "done"]
             \/ /\ ~cut
                /\ IF IsDeploymentReady(readyReplicas[name])
                   THEN /\ call' = [call EXCEPT ![p] = [c EXCEPT !.wait = "ready",
                              !.now = c.now + d,
                              !.sawReady = (readyReplicas[name] = Replicas),
                              !.result = [kind |-> "ok",
                                 endpoint |-> DeployWorkerNames(c.model, c.runtime, c.quant).serviceURL]]]
                        /\ pc' = [pc EXCEPT ![p] = "done"]
                   ELSE /\ call' = [call EXCEPT ![p] = [c EXCEPT !.now = c.now + d,
                              !.timer = c.now + d + PollInterval]]
                        /\ pc' = pc
    /\ UNCHANGED <<store, regVars, clusterVars>>
    /\ UNCHANGED dbClient

WaitNext ==
    \/ \E p \in {WaitCaller} :
          \/ WaitTick(p)
          \/ WaitCancel(p)
          \/ TimedCtxDone(p)
          \/ TimedPoll(p)
    \/ PodReadyChange

WaitSpec == WaitInit /\ [][WaitNext]_vars

\* time passes, and a goroutine whose select has a readable channel runs
FairWaitSpec ==
    WaitSpec /\ WF_vars(\E p \in {WaitCaller} :
                            WaitTick(p) \/ TimedCtxDone(p) \/ TimedPoll(p))

\* what holds of a timed wait at every moment
WaitOutcomeOK(p) ==
    LET c == call[p]
    IN  /\ c.now <= WaitTimeout
        /\ c.polls <= WaitTimeout \div PollInterval
        /\ pc[p] = "waitForReady" => (c.wait = "none" /\ ~c.sawReady)
        /\ pc[p] = "done" =>
             /\ c.wait \in {"ready", "checkerr", "deadline", "canceled"}
             /\ c.wait = "ready" =>
                  (c.sawReady /\ c.result.kind = "ok" /\ c.polls >= 1)
             /\ c.wait # "ready" => (~c.sawReady /\ c.result.kind = "err")
             /\ c.wait = "deadline" => c.now = WaitTimeout
             /\ c.wait = "canceled" => c.cancelled
             /\ c.wait = "checkerr" => c.polls >= 1

\* C25: waitForReady returns, whatever the cluster does: with success from
\* the first poll that saw ready = desired replicas, with an error from the
\* first readiness check that failed, and otherwise with the context's
\* error once the 5 minutes passed or the caller cancelled; it makes at
\* most WaitTimeout / PollInterval polls and none after any of these.
C25_WaitForReadyReturns ==
    /\ [](\A p \in {WaitCaller} : WaitOutcomeOK(p))
    /\ \A p \in {WaitCaller} : (pc[p] = "waitForReady") ~> (pc[p] = "done")

\* the wait ran into its deadline after the workload was never seen ready
C25_Witness ==
    \E p \in {WaitCaller} :
        /\ pc[p] = "done"
        /\ call[p].op = "DeployModel"
        /\ call[p].wait = "deadline"
        /\ call[p].now = WaitTimeout
        /\ call[p].polls >= 50

\* ==================================================== benchmark run ids
\* largest run number the runs table holds at start-up
MaxStoredRun == 2

\* most benchmark runs one goroutine requests
MaxRunCalls == 2

\* Client.GetNextRunID: atomic.AddUint64(&c.nextRunID, 1) - 1, the value
\* returned and the counter left.  The counter starts at most one above an
\* SQL INTEGER and grows by one a call, far from the wrap of uint64.
GetNextRunIDNoAdd(nextRunID) == [ret |-> nextRunID, next |-> nextRunID]

GetNextRunID(nextRunID) ==
    [ret |-> (nextRunID + 1) - 1, next |-> nextRunID + 1]

RunInit ==
    /\ store = NewRegistry
    /\ mu = [writer |-> 0, readers |-> {}]
    /\ pc = [p \in Procs |-> "idle"]
    /\ call = [p \in Procs |-> [op |-> "BenchmarkRun", ids |-> <<>>, result |-> NoResult]]
    /\ lastSet = [k \in {} |-> <<>>]
    /\ deployments = {}
    /\ services = {}
    /\ readyReplicas = [n \in {} |-> 0]
    /\ \E maxID \in 0..MaxStoredRun : dbClient = NewClient(maxID)

\* BenchmarkRunHandler, lines 50-60: decode and validate the request
StartBenchmarkRun(p) ==
    /\ pc[p] = "idle"
    /\ Len(call[p].ids) < MaxRunCalls
    /\ \E valid \in BOOLEAN :
         IF valid
         THEN /\ pc' = [pc EXCEPT ![p] = "GetNextRunID"]
              /\ call' = [call EXCEPT ![p].result = NoResult]
         ELSE /\ pc' = pc
              /\ call' = [call EXCEPT ![p].result = [kind |-> "http", status |-> 400]]
    /\ UNCHANGED <<store, regVars, clusterVars, dbClient>>

\* line 63: dbClient.GetNextRunID(), one atomic add
RunGetNextRunID(p) ==
    /\ pc[p] = "GetNextRunID"
    /\ dbClient' = [dbClient EXCEPT !.nextRunID = GetNextRunID(dbClient.nextRunID).next]
    /\ call' = [call EXCEPT ![p].ids = Append(@, GetNextRunID(dbClient.nextRunID).ret)]
    /\ pc' = [pc EXCEPT ![p] = "CreateRun"]
    /\ UNCHANGED <<store, regVars, clusterVars>>

\* lines 70-91: the run record is inserted and the request answered 202, or
\* the insert fails and the request is answered 500
RunCreateRun(p) ==
    /\ pc[p] = "CreateRun"
    /\ \E status \in {202, 500} :
         call' = [call EXCEPT ![p].result =
                    [kind |-> "http", status |-> status,
                     id |-> call[p].ids[Len(call[p].ids)]]]
    /\ pc' = [pc EXCEPT ![p] = "idle"]
    /\ UNCHANGED <<store, regVars, clusterVars, dbClient>>

RunNext ==
    \E p \in Procs :
        \/ StartBenchmarkRun(p)
        \/ RunGetNextRunID(p)
        \/ RunCreateRun(p)

RunSpec == RunInit /\ [][RunNext]_vars

\* the calls of GetNextRunID made so far, and the values they returned
RunCalls == {<<p, i>> \in Procs \X (1..MaxRunCalls) : i <= Len(call[p].ids)}

\* C30: no two calls of GetNextRunID on the client returned the same value,
\* every value returned is greater than the largest run number loaded at
\* start-up, and the values returned are consecutive.
C30_RunIDsUnique ==
    /\ \A x \in RunCalls, y \in RunCalls :
          x # y => call[x[1]].ids[x[2]] # call[y[1]].ids[y[2]]
    /\ \A x \in RunCalls : call[x[1]].ids[x[2]] > dbClient.maxID
    /\ {call[x[1]].ids[x[2]] : x \in RunCalls}
          = (dbClient.maxID + 1)..(dbClient.maxID + Cardinality(RunCalls))
    /\ \A p \in Procs : \A i \in 1..(Len(call[p].ids) - 1) :
          call[p].ids[i] < call[p].ids[i + 1]

\* two goroutines got run ids in turn, on a client started on a table that
\* already held runs
C30_Witness ==
    \E p, q \in Procs :
        /\ p # q
        /\ dbClient.maxID = MaxStoredRun
        /\ Len(call[p].ids) = 2 /\ Len(call[q].ids) = 1
        /\ call[p].ids[1] < call[q].ids[1]
        /\ call[q].ids[1] < call[p].ids[2]
====
